---------------------------- MODULE Spec2Model ----------------------------
(***************************************************************************)
(* CDELFI (delfi/inference/CDELFI.py): the round loop of run, the loss,    *)
(* the correction step of predict and the per-round seed of gen_newseed    *)
(* (delfi/summarystats/BaseSummaryStats.py).                               *)
(*                                                                         *)
(* Strings the code cuts or searches (parameter names, the printed type of *)
(* the prior) are sequences of one-character strings, so that p[:-1] + '0' *)
(* and 'Uniform' in str(type(..)) are computed as Python computes them.    *)
(* Objects of the collaborators (distributions, parameter tensors, losses, *)
(* datasets) are terms: a tuple whose first element names the operation    *)
(* that built it.  None is the empty tuple.                                *)
(***************************************************************************)
EXTENDS Integers, Sequences, FiniteSets, TLC

\* ------------------------------------------------------------- bounds
\* run(n_rounds = R) is called with R in 0..MaxRounds
MaxRounds == 2
\* run(n_train = N) and loss(N) are called with N in 1..MaxTrain
MaxTrain == 2
\* the object is constructed with n_components up to MaxComponents
MaxComponents == 11
\* the caller calls gen_newseed up to MaxDraws times on an object
MaxDraws == 3
\* the caller calls run up to MaxCalls times on an object
MaxCalls == 2

\* ------------------------------------------------------------ strings
None == << >>

Digits == <<"0", "1", "2", "3", "4", "5", "6", "7", "8", "9">>

\* Python's str(i) for an integer i >= 0
RECURSIVE str(_)
str(i) == IF i < 10 THEN <<Digits[i + 1]>>
          ELSE str(i \div 10) \o <<Digits[(i % 10) + 1]>>

\* Python's  sub in s  for two strings
In(sub, s) ==
    \E i \in 1..(Len(s) - Len(sub) + 1) : SubSeq(s, i, i + Len(sub) - 1) = sub

\* Python's  p[:-1] + '0'
LastCharToZero(p) == SubSeq(p, 1, Len(p) - 1) \o <<"0">>

s_means == <<"m", "e", "a", "n", "s">>
s_precisions == <<"p", "r", "e", "c", "i", "s", "i", "o", "n", "s">>
s_Uniform == <<"U", "n", "i", "f", "o", "r", "m">>
s_Gaussian == <<"G", "a", "u", "s", "s", "i", "a", "n">>
s_StudentsT == <<"S", "t", "u", "d", "e", "n", "t", "s", "T">>
s_mW == <<".", "m", "W">>
s_h1 == <<"h", "1">>
s_weights == <<"w", "e", "i", "g", "h", "t", "s">>

\* ------------------------------------------------- the density estimator
\* The names of a network's parameter dictionary: one means and one
\* precisions tensor per mixture component, named by the component's index,
\* and the tensors shared by all components (hidden layer, mixture weights).
ComponentParam(base, i) == base \o s_mW \o str(i)

SharedParams == {s_h1 \o s_mW, s_weights \o s_mW}

ParamNames(k) ==
    {ComponentParam(s_means, i) : i \in 0..(k - 1)}
        \cup {ComponentParam(s_precisions, i) : i \in 0..(k - 1)}
        \cup SharedParams

\* NeuralNet(**spec): the g-th network built for this object, with k
\* components and freshly initialised parameters.
NeuralNet(k, g) ==
    [gen |-> g, trained |-> 0, n_components |-> k,
     params |-> [p \in ParamNames(k) |-> <<"init", g, p>>]]

NetId(net) == <<net.gen, net.trained, net.n_components>>

\* InferenceBase.predict(x): the network's output at x, a mixture of Gaussians
NetPredict(net, x) == <<"mog", NetId(net), x>>

\* Trainer.train on net: every parameter is replaced by its fitted value
TrainedNet(net) ==
    [net EXCEPT !.trained = @ + 1,
                !.params = [p \in DOMAIN @ |-> <<"trained", net.gen, net.trained + 1, p>>]]

\* -------------------------------------------------- distribution objects
Mul(a, b) == <<"mul", a, b>>
Div(a, b) == <<"div", a, b>>
ProjectToGaussian(d) == <<"project_to_gaussian", d>>

\* the generator's prior: an object of the class named cls
PriorOf(cls) == <<"prior", cls>>
\* str(type(obj)) of a distribution object
TypeStr(obj) == <<"<", "c", "l", "a", "s", "s", " ", "'">> \o obj[2] \o <<"'", ">">>

PriorClasses == {s_Uniform, s_Gaussian, s_StudentsT}
GivenProposal == <<"proposal", "given">>
Obs == "obs"
Xs == {Obs, "x1"}


\* ----------------------------------------------------- results of a call
Ok(v) == [ok |-> TRUE, val |-> v, err |-> ""]
Raise(e) == [ok |-> FALSE, val |-> None, err |-> e]

\* an int-or-None value of Python: None, or Some(i)
Some(i) == <<i>>

VARIABLES
    n_components,   \* self.n_components: components requested for the final round
    svi,            \* self.svi
    seed,           \* self.seed: None or Some(int)
    drawn,          \* the values self.rng has returned so far (its position is Len(drawn))
    generator,      \* self.generator: [prior, proposal]
    network,        \* self.network
    observables,    \* self.observables['loss.kl'], None while absent
    calls,          \* calls to run made so far
    pc,             \* "idle", or the statement of run that executes next
    n_train, n_rounds, r,                       \* run's arguments and loop variable
    logs, trn_datasets, trn_data, old_params, t, posterior,   \* run's locals
    events,         \* history of the current call to run: the steps executed, in order
    ret,            \* what the last call to a method returned or raised
    out,            \* what the caller's calls to gen_newseed returned, in order
    twin            \* a second object with a gen_newseed: [seed, drawn, out]

vars == <<n_components, svi, seed, drawn, generator, network, observables, calls,
          pc, n_train, n_rounds, r, logs, trn_datasets, trn_data, old_params, t,
          posterior, events, ret, out, twin>>

config == <<n_components, svi, seed>>
locals == <<n_train, n_rounds, r, logs, trn_datasets, trn_data, old_params, t, posterior>>
seeding == <<out, twin>>

reg_lambda == "reg_lambda"

\* ----------------------------------------------------------------- loss
NegMeanLprobs(net) == <<"neg_mean_lprobs", NetId(net)>>
SviKlZero(net) == <<"svi_kl_zero", NetId(net), reg_lambda>>

\* loss with 1 / N computed as a division of integers
loss_intdiv(net, svi_on, N) ==
    LET base == [nll |-> NegMeanLprobs(net), reg |-> None]
        kl_bound == svi_on
        kl == SviKlZero(net)
        value == IF svi_on THEN [base EXCEPT !.reg = <<1 \div N, 1, kl>>] ELSE base
    IN  IF kl_bound THEN Ok(value) ELSE Raise("UnboundLocalError")

\* CDELFI.loss(N), lines 60-70.  The value is [nll, reg]: the negative mean
\* log-density and the regularizer added to it, None when nothing is added,
\* else <<1, N, kl>> for 1 / N * kl.  The local kl is bound only by line 63;
\* line 68 reads it on every path, which raises UnboundLocalError when it
\* is not bound.
loss(net, svi_on, N) ==
    LET base == [nll |-> NegMeanLprobs(net), reg |-> None]
        kl_bound == svi_on
        kl == SviKlZero(net)
        value == IF svi_on THEN [base EXCEPT !.reg = <<1, N, kl>>] ELSE base
    IN  IF kl_bound THEN Ok(value) ELSE Raise("UnboundLocalError")

\* -------------------------------------------------------------- predict
IsUniform(prior) == In(s_Uniform, TypeStr(prior))
IsGaussian(prior) == In(s_Gaussian, TypeStr(prior))

\* predict with the prior's family looked at before the proposal
predict_familyFirst(net, gen, x, closed) ==
    LET mog == NetPredict(net, x) IN
    IF IsUniform(gen.prior)
    THEN IF gen.proposal = None THEN Ok(mog)
         ELSE IF closed THEN Ok(Div(mog, gen.proposal)) ELSE Raise("DistributionError")
    ELSE IF IsGaussian(gen.prior)
    THEN IF gen.proposal = None THEN Ok(mog)
         ELSE IF closed THEN Ok(Div(Mul(mog, gen.prior), gen.proposal))
         ELSE Raise("DistributionError")
    ELSE Raise("TypeError")

\* predict with the Gaussian rule applied to every supported prior
predict_alwaysTimesPrior(net, gen, x, closed) ==
    IF gen.proposal = None
    THEN Ok(NetPredict(net, x))
    ELSE LET mog == NetPredict(net, x) IN
         IF IsUniform(gen.prior) \/ IsGaussian(gen.prior)
         THEN IF closed THEN Ok(Div(Mul(mog, gen.prior), gen.proposal))
              ELSE Raise("DistributionError")
         ELSE Raise("TypeError")

\* predict with the Gaussian rule dividing before it multiplies
predict_divideFirst(net, gen, x, closed) ==
    IF gen.proposal = None
    THEN Ok(NetPredict(net, x))
    ELSE LET mog == NetPredict(net, x) IN
         IF IsUniform(gen.prior)
         THEN IF closed THEN Ok(Div(mog, gen.proposal)) ELSE Raise("DistributionError")
         ELSE IF IsGaussian(gen.prior)
         THEN IF closed THEN Ok(Mul(Div(mog, gen.proposal), gen.prior))
              ELSE Raise("DistributionError")
         ELSE Raise("TypeError")

\* CDELFI.predict(x).  closed: whether the distribution objects' * and /
\* succeed on these operands (they raise otherwise).  "raise NotImplemented"
\* raises a TypeError: NotImplemented is not an exception.
predict(net, gen, x, closed) ==
    IF gen.proposal = None
    THEN Ok(NetPredict(net, x))
    ELSE LET mog == NetPredict(net, x) IN
         IF IsUniform(gen.prior)
         THEN IF closed THEN Ok(Div(mog, gen.proposal)) ELSE Raise("DistributionError")
         ELSE IF IsGaussian(gen.prior)
         THEN IF closed THEN Ok(Div(Mul(mog, gen.prior), gen.proposal))
              ELSE Raise("DistributionError")
         ELSE Raise("TypeError")

\* ---------------------------------------------------------- gen_newseed
\* rng.randint(0, 2**31) returns an integer of [0, 2**31): RandintMax is
\* 2**31 - 1, the largest of them
RandintMax == 2147483647
\* the values the model lets it return
RandintSample == {0, 1, RandintMax}

\* gen_newseed(): the values it may return, given self.seed
NewSeeds(sd) == IF sd = None THEN {None} ELSE {Some(v) : v \in RandintSample}

\* Advance for a generator that is put back after every draw
Advance_rewound(sd, stream, s) == IF sd = None \/ stream # << >> THEN stream ELSE Append(stream, s[1])

\* the random stream after gen_newseed returned s
Advance(sd, stream, s) == IF sd = None THEN stream ELSE Append(stream, s[1])

\* -------------------------------------------------------------- surgery
IsComponentParam(s) == In(s_means, s) \/ In(s_precisions, s)

\* run, lines 108-122.  The new network replaces self.network at line 114;
\* a name the old dictionary lacks raises KeyError at line 121, before the
\* new dictionary is written back.
Surgery(old, k) ==
    LET old_p == old.params
        new == NeuralNet(k, old.gen + 1)
        new_params == new.params
        targets == {s \in DOMAIN new_params : IsComponentParam(s)}
    IN  IF \A p \in targets : LastCharToZero(p) \in DOMAIN old_p
        THEN Ok([new EXCEPT !.params =
                    [p \in DOMAIN new_params |->
                        IF p \in targets THEN old_p[LastCharToZero(p)]
                        ELSE new_params[p]]])
        ELSE [ok |-> FALSE, val |-> new, err |-> "KeyError"]

\* ------------------------------------------------------------ the object
NComponentsChoices == {0, 1, 2, MaxComponents - 1, MaxComponents}
SeedChoices == {None, Some(0), Some(1)}

NoReturn == [kind |-> "none", x |-> Obs, N |-> 0, res |-> Raise("")]
NoTwin == [seed |-> None, drawn |-> << >>, out |-> << >>]
NoTrainer == [network |-> <<0, 0, 0>>, loss |-> None, trn_data |-> None, seed |-> None]

\* CDELFI.__init__: the network is built with n_components forced to 1
\* InitialComponents that hands the requested count to the network
InitialComponents_requested(k) == k

\* line 44: kwargs.update({'n_components': 1}); the network the base
\* class builds from kwargs has one component whatever k was requested
InitialComponents(k) == 1

Init ==
    /\ n_components \in NComponentsChoices
    /\ svi \in BOOLEAN
    /\ seed \in SeedChoices
    /\ drawn = << >>
    /\ \E cls \in PriorClasses, p0 \in {None, GivenProposal} :
            generator = [prior |-> PriorOf(cls), proposal |-> p0]
    /\ network = NeuralNet(InitialComponents(n_components), 1)
    /\ observables = None
    /\ calls = 0
    /\ pc = "idle"
    /\ n_train = 0 /\ n_rounds = 0 /\ r = 0
    /\ logs = << >> /\ trn_datasets = << >>
    /\ trn_data = None /\ old_params = None /\ t = NoTrainer /\ posterior = None
    /\ events = << >>
    /\ ret = NoReturn
    /\ out = << >>
    /\ twin = NoTwin

\* a step of round r; pos: how many values the random stream had returned before it
Event(op) == [op |-> op, r |-> r, pos |-> Len(drawn)]

\* an exception leaves run: the call ends and the caller sees the exception
Abort(err) ==
    /\ pc' = "idle"
    /\ ret' = [kind |-> "run", x |-> Obs, N |-> n_train, res |-> Raise(err)]

\* ---------------------------------------------------------------- run
\* lines 100-103: the call, the empty lists, the first value of r
Run_call(N, R) ==
    /\ pc = "idle"
    /\ calls' = calls + 1
    /\ n_train' = N /\ n_rounds' = R /\ r' = 1
    /\ logs' = << >> /\ trn_datasets' = << >>
    /\ trn_data' = None /\ old_params' = None /\ t' = NoTrainer /\ posterior' = None
    /\ events' = << >>
    /\ ret' = NoReturn
    /\ pc' = IF 1 <= R THEN "gen" ELSE "return"
    /\ UNCHANGED <<seeding, config, drawn, generator, network, observables>>

\* line 104: trn_data = self.gen(n_train), drawn under the current proposal
Run_gen ==
    /\ pc = "gen"
    /\ \E ok \in BOOLEAN :
        IF ok
        THEN /\ trn_data' = [r |-> r, n |-> n_train, proposal |-> generator.proposal]
             /\ events' = Append(events, Event("gen"))
             /\ pc' = "surgery"
             /\ UNCHANGED ret
        ELSE /\ Abort("GeneratorError")
             /\ UNCHANGED <<trn_data, events>>
    /\ UNCHANGED <<seeding, config, drawn, generator, network, observables, calls,
                   n_train, n_rounds, r, logs, trn_datasets, old_params, t, posterior>>

\* SurgeryDue that holds in the first round
SurgeryDue_firstRound(round, rounds, k) == round = 1 /\ k > 1

\* SurgeryDue without the test for the final round
SurgeryDue_everyRound(round, rounds, k) == k > 1

\* run's test of line 107
SurgeryDue(round, rounds, k) == round = rounds /\ k > 1

\* lines 107-122
Run_surgery ==
    /\ pc = "surgery"
    /\ IF SurgeryDue(r, n_rounds, n_components)
       THEN LET s == Surgery(network, n_components) IN
            /\ old_params' = network.params
            /\ network' = s.val
            /\ events' = Append(events, Event("surgery"))
            /\ IF s.ok THEN pc' = "trainer" /\ UNCHANGED ret ELSE Abort(s.err)
       ELSE /\ pc' = "trainer"
            /\ UNCHANGED <<old_params, network, events, ret>>
    /\ UNCHANGED <<seeding, config, drawn, generator, observables, calls,
                   n_train, n_rounds, r, logs, trn_datasets, trn_data, t, posterior>>

\* lines 124-126: the arguments in order (self.loss(N), then
\* self.gen_newseed()), then the Trainer
Run_trainer ==
    /\ pc = "trainer"
    /\ LET l == loss(network, svi, n_train) IN
       IF l.ok
       THEN \E s \in NewSeeds(seed) :
            /\ observables' = l.val.reg[3]
            /\ drawn' = Advance(seed, drawn, s)
            /\ t' = [network |-> NetId(network), loss |-> l.val,
                     trn_data |-> trn_data, seed |-> s]
            /\ events' = Append(Append(events, Event("loss")), Event("gen_newseed"))
            /\ pc' = "train"
            /\ UNCHANGED ret
       ELSE /\ Abort(l.err)
            /\ events' = Append(events, Event("loss"))
            /\ UNCHANGED <<observables, drawn, t>>
    /\ UNCHANGED <<seeding, config, generator, network, calls,
                   n_train, n_rounds, r, logs, trn_datasets, trn_data, old_params, posterior>>

\* t.train(..): the log of training t's network on t's data
TrainLog(tr) == [trn_data |-> tr.trn_data, seed |-> tr.seed, loss |-> tr.loss]

\* Run_train that trains and drops the log
Run_train_noLog ==
    /\ pc = "train"
    /\ \E ok \in BOOLEAN :
        IF ok
        THEN /\ network' = TrainedNet(network)
             /\ logs' = logs
             /\ events' = Append(events, Event("train"))
             /\ pc' = "append"
             /\ UNCHANGED ret
        ELSE /\ Abort("TrainerError")
             /\ UNCHANGED <<network, logs, events>>
    /\ UNCHANGED <<seeding, config, drawn, generator, observables, calls,
                   n_train, n_rounds, r, trn_datasets, trn_data, old_params, t, posterior>>

\* line 128: logs.append(t.train(..))
Run_train ==
    /\ pc = "train"
    /\ \E ok \in BOOLEAN :
        IF ok
        THEN /\ network' = TrainedNet(network)
             /\ logs' = Append(logs, TrainLog(t))
             /\ events' = Append(events, Event("train"))
             /\ pc' = "append"
             /\ UNCHANGED ret
        ELSE /\ Abort("TrainerError")
             /\ UNCHANGED <<network, logs, events>>
    /\ UNCHANGED <<seeding, config, drawn, generator, observables, calls,
                   n_train, n_rounds, r, trn_datasets, trn_data, old_params, t, posterior>>

\* Run_append with the dataset put in front of the list
Run_append_prepend ==
    /\ pc = "append"
    /\ trn_datasets' = <<trn_data>> \o trn_datasets
    /\ events' = Append(events, Event("append"))
    /\ pc' = "predict"
    /\ UNCHANGED <<seeding, config, drawn, generator, network, observables, calls,
                   n_train, n_rounds, r, logs, trn_data, old_params, t, posterior, ret>>

\* line 129: trn_datasets.append(trn_data)
Run_append ==
    /\ pc = "append"
    /\ trn_datasets' = Append(trn_datasets, trn_data)
    /\ events' = Append(events, Event("append"))
    /\ pc' = "predict"
    /\ UNCHANGED <<seeding, config, drawn, generator, network, observables, calls,
                   n_train, n_rounds, r, logs, trn_data, old_params, t, posterior, ret>>

\* line 132: posterior = self.predict(self.obs)
Run_predict ==
    /\ pc = "predict"
    /\ \E closed \in BOOLEAN :
        LET p == predict(network, generator, Obs, closed) IN
        IF p.ok
        THEN /\ posterior' = p.val
             /\ events' = Append(events, Event("predict"))
             /\ pc' = "project"
             /\ UNCHANGED ret
        ELSE /\ Abort(p.err)
             /\ UNCHANGED <<posterior, events>>
    /\ UNCHANGED <<seeding, config, drawn, generator, network, observables, calls,
                   n_train, n_rounds, r, logs, trn_datasets, trn_data, old_params, t>>

\* Run_project that writes the proposal before the projection can fail
Run_project_writeFirst ==
    /\ pc = "project"
    /\ \E ok \in BOOLEAN :
        IF ok
        THEN /\ generator' = [generator EXCEPT !.proposal = ProjectToGaussian(posterior)]
             /\ events' = Append(events, Event("proposal"))
             /\ r' = r + 1
             /\ pc' = IF r + 1 <= n_rounds THEN "gen" ELSE "return"
             /\ UNCHANGED ret
        ELSE /\ Abort("ProjectionError")
             /\ generator' = [generator EXCEPT !.proposal = posterior]
             /\ UNCHANGED <<events, r>>
    /\ UNCHANGED <<seeding, config, drawn, network, observables, calls,
                   n_train, n_rounds, logs, trn_datasets, trn_data, old_params, t, posterior>>

\* Run_project that sets the posterior itself as the proposal
Run_project_unprojected ==
    /\ pc = "project"
    /\ \E ok \in BOOLEAN :
        IF ok
        THEN /\ generator' = [generator EXCEPT !.proposal = posterior]
             /\ events' = Append(events, Event("proposal"))
             /\ r' = r + 1
             /\ pc' = IF r + 1 <= n_rounds THEN "gen" ELSE "return"
             /\ UNCHANGED ret
        ELSE /\ Abort("ProjectionError")
             /\ UNCHANGED <<generator, events, r>>
    /\ UNCHANGED <<seeding, config, drawn, network, observables, calls,
                   n_train, n_rounds, logs, trn_datasets, trn_data, old_params, t, posterior>>

\* line 133, and the loop's next value of r
Run_project ==
    /\ pc = "project"
    /\ \E ok \in BOOLEAN :
        IF ok
        THEN /\ generator' = [generator EXCEPT !.proposal = ProjectToGaussian(posterior)]
             /\ events' = Append(events, Event("proposal"))
             /\ r' = r + 1
             /\ pc' = IF r + 1 <= n_rounds THEN "gen" ELSE "return"
             /\ UNCHANGED ret
        ELSE /\ Abort("ProjectionError")
             /\ UNCHANGED <<generator, events, r>>
    /\ UNCHANGED <<seeding, config, drawn, network, observables, calls,
                   n_train, n_rounds, logs, trn_datasets, trn_data, old_params, t, posterior>>

\* Run_return that puts the generator back to sampling from the prior
Run_return_resetProposal ==
    /\ pc = "return"
    /\ pc' = "idle"
    /\ generator' = [generator EXCEPT !.proposal = None]
    /\ ret' = [kind |-> "run", x |-> Obs, N |-> n_train, res |-> Ok(<<logs, trn_datasets>>)]
    /\ UNCHANGED <<seeding, config, drawn, network, observables, calls, locals, events>>

\* line 135: return logs, trn_datasets
Run_return ==
    /\ pc = "return"
    /\ pc' = "idle"
    /\ ret' = [kind |-> "run", x |-> Obs, N |-> n_train, res |-> Ok(<<logs, trn_datasets>>)]
    /\ UNCHANGED <<seeding, config, drawn, generator, network, observables, calls, locals, events>>

\* ------------------------------------------- the caller's other calls
\* predict(x), called on the object between calls to run
Call_predict(x) ==
    /\ pc = "idle"
    /\ \E closed \in BOOLEAN :
        ret' = [kind |-> "predict", x |-> x, N |-> 0,
                res |-> predict(network, generator, x, closed)]
    /\ UNCHANGED <<seeding, config, drawn, generator, network, observables, calls, pc, locals, events>>

\* loss(N), called on the object between calls to run
Call_loss(N) ==
    /\ pc = "idle"
    /\ LET l == loss(network, svi, N) IN
        /\ ret' = [kind |-> "loss", x |-> Obs, N |-> N, res |-> l]
        /\ observables' = IF l.ok THEN l.val.reg[3] ELSE observables
    /\ UNCHANGED <<seeding, config, drawn, generator, network, calls, pc, locals, events>>

\* ------------------------------------------------- two seeded objects
\* RngSeed for a generator that is built without the seed
RngSeed_unseeded(sd) == None

\* SummaryStatsBase.__init__, line 24: the seed self.rng is built with
RngSeed(sd) == sd

\* a is a prefix of b, or b of a
Compatible(a, b) ==
    \A i \in 1..(IF Len(a) < Len(b) THEN Len(a) ELSE Len(b)) : a[i] = b[i]

\* np.random.RandomState(seed): two generators built with the same seed
\* (not None) return the same values in the same order
SameStream(sd1, stream1, sd2, stream2) ==
    (RngSeed(sd1) = RngSeed(sd2) /\ RngSeed(sd1) # None) => Compatible(stream1, stream2)

NoCall == /\ calls = 0
          /\ pc = "idle"
          /\ n_train = 0 /\ n_rounds = 0 /\ r = 0
          /\ logs = << >> /\ trn_datasets = << >>
          /\ trn_data = None /\ old_params = None /\ t = NoTrainer /\ posterior = None
          /\ events = << >>
          /\ ret = NoReturn

\* two objects, each constructed with a seed or with none
InitSeed ==
    /\ seed \in SeedChoices
    /\ drawn = << >>
    /\ out = << >>
    /\ \E sd \in SeedChoices : twin = [seed |-> sd, drawn |-> << >>, out |-> << >>]
    /\ n_components = 1
    /\ svi = TRUE
    /\ generator = [prior |-> PriorOf(s_Uniform), proposal |-> None]
    /\ network = NeuralNet(InitialComponents(n_components), 1)
    /\ observables = None
    /\ NoCall

\* gen_newseed(), called on the object
Call_gen_newseed ==
    /\ pc = "idle"
    /\ Len(out) < MaxDraws
    /\ \E s \in NewSeeds(seed) :
        LET d == Advance(seed, drawn, s) IN
        /\ SameStream(seed, d, twin.seed, twin.drawn)
        /\ drawn' = d
        /\ out' = Append(out, s)
        /\ ret' = [kind |-> "gen_newseed", x |-> Obs, N |-> 0, res |-> Ok(s)]
    /\ UNCHANGED <<config, generator, network, observables, calls, pc, locals, events, twin>>

\* gen_newseed(), called on the second object
Twin_gen_newseed ==
    /\ pc = "idle"
    /\ Len(twin.out) < MaxDraws
    /\ \E s \in NewSeeds(twin.seed) :
        LET d == Advance(twin.seed, twin.drawn, s) IN
        /\ SameStream(twin.seed, d, seed, drawn)
        /\ twin' = [twin EXCEPT !.drawn = d, !.out = Append(@, s)]
    /\ UNCHANGED <<config, drawn, generator, network, observables, calls, pc, locals,
                   events, ret, out>>

NextSeed == Call_gen_newseed \/ Twin_gen_newseed

SpecSeed == InitSeed /\ [][NextSeed]_vars

\* ------------------------------------------ several runs of one object
\* an object built with svi on and no seed, asked for one or two components
InitCalls ==
    /\ n_components \in {1, 2}
    /\ svi = TRUE
    /\ seed = None
    /\ drawn = << >>
    /\ out = << >>
    /\ twin = NoTwin
    /\ \E cls \in PriorClasses, p0 \in {None, GivenProposal} :
            generator = [prior |-> PriorOf(cls), proposal |-> p0]
    /\ network = NeuralNet(InitialComponents(n_components), 1)
    /\ observables = None
    /\ NoCall

\* the caller runs the object up to MaxCalls times, each time with MaxTrain
\* samples and any number of rounds, and may call predict whenever no run
\* is in progress
NextCalls ==
    \/ \E N \in {MaxTrain}, R \in 0..MaxRounds : calls < MaxCalls /\ Run_call(N, R)
    \/ Run_gen
    \/ Run_surgery
    \/ Run_trainer
    \/ Run_train
    \/ Run_append
    \/ Run_predict
    \/ Run_project
    \/ Run_return
    \/ \E x \in Xs : Call_predict(x)

SpecCalls == InitCalls /\ [][NextCalls]_vars

Next ==
    \/ \E N \in 1..MaxTrain, R \in 0..MaxRounds : calls = 0 /\ Run_call(N, R)
    \/ Run_gen
    \/ Run_surgery
    \/ Run_trainer
    \/ Run_train
    \/ Run_append
    \/ Run_predict
    \/ Run_project
    \/ Run_return
    \/ \E x \in Xs : Call_predict(x)
    \/ \E N \in 1..MaxTrain : Call_loss(N)

Spec == Init /\ [][Next]_vars

\* ---------------------------------------------------------------------
\* Properties
\* ---------------------------------------------------------------------
Returned == pc = "idle" /\ ret.kind = "run"
ReturnedNormally == Returned /\ ret.res.ok

EventsOf(op) == {i \in 1..Len(events) : events[i].op = op}
AfterSurgery == events # << >> /\ events[Len(events)].op = "surgery"

\* C1: a call to run that returns normally returns n_rounds logs and n_rounds
\* datasets; the dataset at index i is the one drawn in round i, and the
\* log at index i is the log of training on that dataset.
C1_OneEntryPerRound ==
    ReturnedNormally =>
        LET ls == ret.res.val[1]
            ds == ret.res.val[2]
        IN  /\ Len(ls) = n_rounds
            /\ Len(ds) = n_rounds
            /\ \A i \in 1..n_rounds : ds[i].r = i /\ ls[i].trn_data = ds[i]

C1_Witness ==
    /\ ReturnedNormally
    /\ n_rounds = 2
    /\ Len(ret.res.val[1]) = 2
    /\ ret.res.val[2][2].r = 2

\* C2 as stated: when a call to run with n_rounds >= 1 has ended, surgery
\* was executed exactly once if n_components > 1 and never otherwise, in
\* round n_rounds and before that round's training.
SurgeryOnlyBeforeFinalTraining ==
    \A i \in EventsOf("surgery") :
        /\ events[i].r = n_rounds
        /\ \A j \in EventsOf("train") : events[j].r = n_rounds => i < j

C3_LossWithoutSvi ==
    (pc = "idle" /\ ret.kind = "loss" /\ ~svi /\ ret.N > 0) =>
        /\ ret.res.ok
        /\ ret.res.val = [nll |-> NegMeanLprobs(network), reg |-> None]

\* C4: right after surgery to k = n_components > 1 components, every means
\* and precisions parameter of the new network, at index 0 as at every index
\* 1 <= i < k, has the value of the old network's parameter of component 0.
C4_ComponentsDuplicated ==
    AfterSurgery =>
        \A base \in {s_means, s_precisions}, i \in 0..(n_components - 1) :
            /\ ComponentParam(base, i) \in DOMAIN network.params
            /\ network.params[ComponentParam(base, i)]
                    = old_params[ComponentParam(base, 0)]

\* C5: right after surgery, every parameter of the new network that is not a
\* means or precisions parameter has the value it had in the snapshot of the
\* old network's parameters.
C5_SharedParamsKept ==
    AfterSurgery =>
        \A p \in DOMAIN network.params :
            ~IsComponentParam(p) =>
                p \in DOMAIN old_params /\ network.params[p] = old_params[p]

\* predict has just returned or raised: called by the caller, or at line 132
PredictCalled == pc = "idle" /\ ret.kind = "predict"
PredictedInRun == pc = "project"

OtherFamily(prior) == prior # PriorOf(s_Uniform) /\ prior # PriorOf(s_Gaussian)
UnsupportedPriorErrors == {"UnsupportedPriorKind", "NotImplementedError"}

\* C6: when the proposal is set and the prior is neither Uniform nor
\* Gaussian, predict raises the exception that names the unsupported prior
\* (and not any other error), and changes neither the generator's prior and
\* proposal nor the network.
C6_UnsupportedPriorRaises ==
    [][ ((\E x \in Xs : Call_predict(x))
            /\ generator.proposal # None /\ OtherFamily(generator.prior))
        => /\ ~ret'.res.ok
           /\ ret'.res.err \in UnsupportedPriorErrors
           /\ UNCHANGED <<generator, network>> ]_vars

\* C7: when the proposal is unset, predict(x) returns the network's output at
\* x, whatever the prior's family.
C7_NoProposalRawOutput ==
    /\ (PredictCalled /\ generator.proposal = None) =>
            ret.res = Ok(NetPredict(network, ret.x))
    /\ (PredictedInRun /\ generator.proposal = None) =>
            posterior = NetPredict(network, Obs)

C7_Witness ==
    /\ PredictCalled
    /\ generator.proposal = None
    /\ generator.prior = PriorOf(s_StudentsT)
    /\ ret.res.ok
    /\ ret.res.val = NetPredict(network, "x1")

\* C8: when the proposal is set and the prior is Uniform, what predict(x)
\* returns is the network's output at x divided by the generator's current
\* proposal, a term the prior is no operand of; it returns nothing else (it
\* raises only when the division does).
C8_UniformDividesByProposal ==
    /\ (PredictCalled /\ generator.proposal # None /\ generator.prior = PriorOf(s_Uniform)) =>
            ret.res \in {Ok(Div(NetPredict(network, ret.x), generator.proposal)),
                         Raise("DistributionError")}
    /\ (PredictedInRun /\ generator.proposal # None /\ generator.prior = PriorOf(s_Uniform)) =>
            posterior = Div(NetPredict(network, Obs), generator.proposal)

C8_Witness ==
    /\ PredictCalled
    /\ calls = 1
    /\ generator.prior = PriorOf(s_Uniform)
    /\ generator.proposal # None
    /\ generator.proposal # GivenProposal
    /\ ret.res = Ok(Div(NetPredict(network, ret.x), generator.proposal))

\* C9: when the proposal is set and the prior is Gaussian, what predict(x)
\* returns is (the network's output at x times the prior) divided by the
\* generator's current proposal, the product being the dividend.
C9_GaussianTimesPriorOverProposal ==
    /\ (PredictCalled /\ generator.proposal # None /\ generator.prior = PriorOf(s_Gaussian)) =>
            ret.res \in {Ok(Div(Mul(NetPredict(network, ret.x), generator.prior),
                                generator.proposal)),
                         Raise("DistributionError")}
    /\ (PredictedInRun /\ generator.proposal # None /\ generator.prior = PriorOf(s_Gaussian)) =>
            posterior = Div(Mul(NetPredict(network, Obs), generator.prior),
                            generator.proposal)

C9_Witness ==
    /\ PredictCalled
    /\ calls = 1
    /\ generator.prior = PriorOf(s_Gaussian)
    /\ generator.proposal # None
    /\ generator.proposal # GivenProposal
    /\ ret.res = Ok(Div(Mul(NetPredict(network, ret.x), generator.prior), generator.proposal))

\* the seeds passed to the trainers built so far in this call, in round order
TrainerSeeds ==
    [i \in 1..Cardinality(EventsOf("gen_newseed")) |->
        IF i <= Len(logs) THEN logs[i].seed ELSE t.seed]

OneSeedPerRound ==
    \A i \in 1..Len(TrainerSeeds) :
        Cardinality({j \in EventsOf("gen_newseed") : events[j].r = i}) = 1

\* C10 as stated: every round takes one seed from gen_newseed and passes it
\* to its trainer, and the seeds passed in different rounds differ, for a
\* seeded and for an unseeded object.
C10_Original ==
    /\ OneSeedPerRound
    /\ \A i, j \in 1..Len(TrainerSeeds) : i # j => TrainerSeeds[i] # TrainerSeeds[j]

\* C10, amended: every round takes one value from gen_newseed and passes it
\* to its trainer.  For an unseeded object that value is None in every round.
\* For a seeded object it is the next value of the object's random stream, an
\* integer of [0, 2**31): different rounds take different positions of the
\* stream (the values are equal only where the stream repeats itself).
C10_SeedPerRound ==
    /\ OneSeedPerRound
    /\ \A j \in EventsOf("gen_newseed") :
        LET s == TrainerSeeds[events[j].r] IN
        IF seed = None
        THEN s = None
        ELSE /\ events[j].pos + 1 <= Len(drawn)
             /\ s = Some(drawn[events[j].pos + 1])
             /\ s[1] \in 0..RandintMax
             /\ \A i \in EventsOf("gen_newseed") : i # j => events[i].pos # events[j].pos

C10_Witness ==
    /\ ReturnedNormally
    /\ n_rounds = 2
    /\ seed = Some(0)
    /\ Len(TrainerSeeds) = 2
    /\ TrainerSeeds[1] # TrainerSeeds[2]

C10_WitnessUnseeded ==
    /\ ReturnedNormally
    /\ n_rounds = 2
    /\ seed = None
    /\ TrainerSeeds = <<None, None>>

\* what gen_newseed returned on an object with this seed, stream and results
SeedsFollowStream(sd, stream, results) ==
    IF sd = None
    THEN stream = << >> /\ \A i \in 1..Len(results) : results[i] = None
    ELSE /\ Len(stream) = Len(results)
         /\ \A i \in 1..Len(results) :
                results[i] = Some(stream[i]) /\ stream[i] \in 0..RandintMax

\* C11: on an object constructed without a seed gen_newseed returns None and
\* the random stream stays where it was; on an object constructed with an
\* integer seed (0 included) every call takes exactly one value from the
\* stream and returns it, an integer s with 0 <= s < 2**31; two objects
\* constructed with the same seed return the same values in the same order.
C11_GenNewseed ==
    /\ SeedsFollowStream(seed, drawn, out)
    /\ SeedsFollowStream(twin.seed, twin.drawn, twin.out)
    /\ seed = twin.seed => Compatible(out, twin.out)

C11_Witness ==
    /\ seed = Some(0)
    /\ twin.seed = Some(0)
    /\ Len(out) = MaxDraws
    /\ Len(twin.out) = 2
    /\ out[1] # out[2]
    /\ Compatible(out, twin.out)

\* values the KL term may take
KLValues == {0, 1, 3}

\* fractions <<numerator, denominator>>
RatEq(a, b) == a[1] * b[2] = b[1] * a[2]
RatTimes(n, a) == <<n * a[1], a[2]>>

\* what the regularizer <<1, N, kl>> (1 / N * kl) amounts to when kl is klv
RegValue(reg, klv) == <<reg[1] * klv, reg[2]>>

\* C12: with svi enabled, loss(N) is the negative mean log-density plus a
\* regularizer that amounts to kl / N for every value kl of the KL term; the
\* regularizer of loss(2N) is half the regularizer of loss(N).
C12_RegularizerOverN ==
    (pc = "idle" /\ ret.kind = "loss" /\ svi /\ ret.N > 0) =>
        /\ ret.res.ok
        /\ ret.res.val.nll = NegMeanLprobs(network)
        /\ ret.res.val.reg[3] = SviKlZero(network)
        /\ LET twice == loss(network, svi, 2 * ret.N).val.reg IN
           /\ twice[3] = ret.res.val.reg[3]
           /\ \A klv \in KLValues :
                /\ RatEq(RegValue(ret.res.val.reg, klv), <<klv, ret.N>>)
                /\ RatEq(RatTimes(2, RegValue(twice, klv)), RegValue(ret.res.val.reg, klv))

C12_Witness ==
    /\ pc = "idle"
    /\ ret.kind = "loss"
    /\ svi
    /\ ret.N = 2
    /\ ret.res.ok
    /\ RatEq(RegValue(ret.res.val.reg, 3), <<3, 2>>)

\* the steps of round i executed so far in this call, in order
RoundOps(i) ==
    LET InRound(e) == e.r = i
        es == SelectSeq(events, InRound)
    IN  [j \in 1..Len(es) |-> es[j].op]

IsPrefix(a, b) == Len(a) <= Len(b) /\ SubSeq(b, 1, Len(a)) = a

\* the order in which run executes the steps of round i
RoundOrder(i) ==
    IF SurgeryDue(i, n_rounds, n_components)
    THEN <<"gen", "surgery", "loss", "gen_newseed", "train", "append", "predict", "proposal">>
    ELSE <<"gen", "loss", "gen_newseed", "train", "append", "predict", "proposal">>

ProposalUpdates == Cardinality(EventsOf("proposal"))

\* C13 as stated: the round's log is appended only after the proposal was
\* set, so the appended logs never outnumber the proposal updates of this run
C13_Original == Len(logs) <= ProposalUpdates

\* C13, amended: every round executes, in this order, draw, surgery (final
\* round, if requested), loss, seed, train and append the log, append the
\* dataset, predict, set the proposal; the rounds follow each other; the
\* proposal updates of this run never outnumber the appended logs, and the
\* logs outnumber them by at most one.
C13_RoundOrder ==
    /\ \A i \in 1..n_rounds : IsPrefix(RoundOps(i), RoundOrder(i))
    /\ \A j \in 1..Len(events) :
            /\ events[j].r \in 1..n_rounds
            /\ j > 1 => events[j - 1].r <= events[j].r
    /\ ProposalUpdates <= Len(logs)
    /\ Len(logs) <= ProposalUpdates + 1
    /\ Len(trn_datasets) = Cardinality(EventsOf("append"))
    /\ Len(logs) = Cardinality(EventsOf("train"))

C13_Witness ==
    /\ pc = "predict"
    /\ r = 2
    /\ Len(logs) = 2
    /\ Len(trn_datasets) = 2
    /\ ProposalUpdates = 1

\* the exceptions a statement of run can end with
StepErrors(at) ==
    CASE at = "gen" -> {"GeneratorError"}
      [] at = "surgery" -> {"KeyError"}
      [] at = "trainer" -> {"UnboundLocalError"}
      [] at = "train" -> {"TrainerError"}
      [] at = "predict" -> {"TypeError", "DistributionError"}
      [] at = "project" -> {"ProjectionError"}
      [] OTHER -> {}

\* C14: a step of a round that fails ends the call to run with that failure,
\* with the generator's proposal (and the round counter, the lists) as they
\* were when the step began; once the call has ended no step of run is
\* executed: no further draw, trainer, training or proposal update.
C14_FailureEndsRun ==
    [][ /\ (pc # "idle" /\ pc' = "idle" /\ ~ret'.res.ok) =>
                /\ ret'.kind = "run"
                /\ ret'.res.err \in StepErrors(pc)
                /\ generator' = generator
                /\ r' = r /\ logs' = logs /\ trn_datasets' = trn_datasets
        /\ (pc = "idle" /\ calls > 0) =>
                /\ pc' = "idle"
                /\ UNCHANGED <<events, generator, network, drawn, r, logs, trn_datasets>>
      ]_vars

C14_Witness ==
    /\ Returned
    /\ ~ret.res.ok
    /\ ret.res.err = "ProjectionError"
    /\ r = 2
    /\ n_rounds = 2
    /\ ProposalUpdates = 1
    /\ generator.proposal # None
    /\ generator.proposal # GivenProposal

\* the statements of round r between its draw and its predict
DrawnNotYetPredicted == pc \in {"surgery", "trainer", "train", "append", "predict"}

\* C15: the proposal is written once in every completed round and in no
\* other, after that round's training and correction; from round 2 on, the
\* round's data are drawn under the Gaussian projection of the previous
\* round's corrected posterior; after a completed round the proposal is set.
C15_ProposalPerRound ==
    /\ \A i \in 1..n_rounds :
            Cardinality({j \in EventsOf("proposal") : events[j].r = i})
                = (IF i < r THEN 1 ELSE 0)
    /\ \A j \in EventsOf("proposal") :
            \E a \in EventsOf("train"), b \in EventsOf("predict") :
                a < b /\ b < j /\ events[a].r = events[j].r /\ events[b].r = events[j].r
    /\ (DrawnNotYetPredicted /\ r >= 2) =>
            /\ trn_data.r = r
            /\ trn_data.proposal = ProjectToGaussian(posterior)
            /\ generator.proposal = trn_data.proposal
    /\ \A i \in 1..Len(trn_datasets) :
            i >= 2 => /\ trn_datasets[i].proposal # None
                      /\ trn_datasets[i].proposal[1] = "project_to_gaussian"
    /\ ProposalUpdates >= 1 => generator.proposal # None

C15_Witness ==
    /\ pc = "train"
    /\ r = 2
    /\ posterior # None
    /\ trn_data.proposal = ProjectToGaussian(posterior)
    /\ ProposalUpdates = 1

\* the number of components the first run's round i is to train
ComponentsOfRound(i) == IF i = n_rounds /\ n_components > 1 THEN n_components ELSE 1

\* the number of mean blocks among the network's parameters
MeanBlocks(net) == Cardinality({p \in DOMAIN net.params : In(s_means, p)})

\* C16: in the first run of a new object the network handed to the trainer
\* and trained in a round before the last has exactly one component, and
\* the one of the last round has n_components components when that is more
\* than one and one component otherwise.
C16_ComponentsPerRound ==
    /\ pc = "train" =>
            /\ t.network = NetId(network)
            /\ t.network[3] = ComponentsOfRound(r)
    /\ pc \in {"train", "append", "predict", "project"} =>
            /\ network.n_components = ComponentsOfRound(r)
            /\ MeanBlocks(network) = ComponentsOfRound(r)
    /\ pc \in {"append", "predict", "project"} => network.trained >= 1

C16_Witness ==
    /\ pc = "append"
    /\ r = 2 /\ n_rounds = 2
    /\ n_components = 2
    /\ network.n_components = 2
    /\ network.trained = 1
    /\ MeanBlocks(network) = 2

\* the training steps recorded before position j
TrainedBefore(j) == {a \in EventsOf("train") : a < j}

\* C17 as stated: every surgery of a run comes after a training step of that run.
C17_Original ==
    \A j \in EventsOf("surgery") : TrainedBefore(j) # {}

\* C17: a surgery of a run happens in round n_rounds, after each of the
\* n_rounds - 1 earlier rounds has trained once and before round n_rounds
\* trains; with n_rounds = 1 nothing has been trained before it.
C17_SurgeryAfterEarlierRounds ==
    \A j \in EventsOf("surgery") :
        /\ events[j].r = n_rounds
        /\ Cardinality(TrainedBefore(j)) = n_rounds - 1
        /\ \A i \in 1..(n_rounds - 1) :
                \E a \in TrainedBefore(j) : events[a].r = i
        /\ \A a \in EventsOf("train") : a > j => events[a].r = n_rounds

C17_Witness ==
    /\ AfterSurgery
    /\ n_rounds = 2
    /\ \E a \in TrainedBefore(Len(events)) : events[a].r = 1
    /\ network.trained = 0
    /\ old_params # None

C17_WitnessFirstRound ==
    /\ AfterSurgery
    /\ n_rounds = 1
    /\ EventsOf("train") = {}

\* the proposal under which the data of the network's latest training were drawn
TrainingProposal == logs[Len(logs)].trn_data.proposal

\* C18: whenever predict divides by the generator's proposal, inside run or
\* called after run, that proposal is the one under which the data of the
\* network's latest training were drawn.
C18_DivisorIsTrainingProposal ==
    /\ (PredictedInRun /\ generator.proposal # None) =>
            generator.proposal = TrainingProposal
    /\ (PredictCalled /\ ret.res.ok /\ generator.proposal # None
            /\ network.trained >= 1 /\ logs # << >>) =>
            generator.proposal = TrainingProposal

\* the in-run half of C18, which the code does satisfy
C18_InRunDivisor ==
    (PredictedInRun /\ generator.proposal # None) => generator.proposal = TrainingProposal

\* C19: over any sequence of calls to run and predict, predict (called
\* by the caller or inside run) leaves the generator and the network as they
\* are, no step changes the generator's prior, and the proposal changes only
\* in run's end-of-round update, to the projection of the round's posterior.
C19_PredictAndPriorFrame ==
    [][ /\ generator'.prior = generator.prior
        /\ generator'.proposal # generator.proposal =>
                /\ pc = "project"
                /\ pc' # "idle"
                /\ r' = r + 1
                /\ generator'.proposal = ProjectToGaussian(posterior)
        /\ (\E x \in Xs : Call_predict(x)) => UNCHANGED <<generator, network>>
        /\ pc = "predict" => UNCHANGED <<generator, network>>
      ]_vars

C19_Witness ==
    /\ PredictCalled
    /\ ret.res.ok
    /\ calls = MaxCalls
    /\ r = 2 /\ n_rounds = 1
    /\ generator.proposal = ProjectToGaussian(posterior)
    /\ network.trained >= 2

\* the number of networks built by surgery since the object was constructed
Surgeries == network.gen - 1

\* C20: over any sequence of calls to run on an object with n_components > 1,
\* the network handed to the trainer in a round before the call's last has
\* one component, and at most one surgery has happened since construction.
C20_OneComponentUntilFinal ==
    n_components > 1 =>
        /\ (pc = "train" /\ r < n_rounds) => network.n_components = 1
        /\ Surgeries <= 1

\* within an object's first call to run C20 does hold
C20_FirstCall ==
    (n_components > 1 /\ calls <= 1) =>
        /\ (pc = "train" /\ r < n_rounds) => network.n_components = 1
        /\ Surgeries <= 1

=============================================================================
